---- MODULE Spec2Model ----
(***************************************************************************)
(* Client-side session lifecycle and data-fetch orchestration of the CMAS  *)
(* single-page application, in its three versions:                         *)
(*   "appjs" = src/frontend/src/App.js   (fetch, per-request credential)   *)
(*   "p000"  = src/unnamed/part_000      (axios, token state + header)     *)
(*   "p001"  = src/unnamed/part_001      (axios, no token state)           *)
(* The backend is external: every response is a nondeterministic choice.   *)
(* One action is one handler run to completion together with the React     *)
(* render and effects it causes.                                           *)
(***************************************************************************)
EXTENDS Integers, Sequences, FiniteSets, TLC

VARIABLES
  ver,      \* which of the three versions runs
  pc,       \* "start" before AuthProvider's mount effect has run, then "running"
  user,     \* AuthProvider: user state
  token,    \* AuthProvider: token state (appjs, p000; p001 keeps none)
  loading,  \* AuthProvider: loading state
  ls,       \* localStorage entry 'token'
  hdr,      \* axios.defaults.headers.common['Authorization'] (p000, p001)
  view,     \* what AppContent has mounted: "loading", "login" or "dashboard"
  lf,       \* LoginForm state
  dash,     \* Dashboard state
  tab,      \* state of the component mounted for the active tab
  net,      \* requests in flight
  last      \* history: the handler that ran last, what it returned and issued

vars == <<ver, pc, user, token, loading, ls, hdr, view, lf, dash, tab, net, last>>

----------------------------------------------------------------------------
(* Bounds *)
MaxInflight == 2     \* a user action issues a request only below this many in flight
MaxMeds == 2         \* medications in a list whose stock figures are rendered
MaxStock == 2        \* largest stock level and threshold in such a list
MaxScript == 3       \* events in a script the three versions are run on side by side

(* Values *)
Versions == {"appjs", "p000", "p001"}
NoToken == "null"
NoUser == "null"
Undefined == "undefined"
Tokens == {"t1", "t2"}
Users == {"admin", "nurse"}
Role(u) == IF u = "admin" THEN "admin" ELSE "staff"
NoHeader == <<>>
Bearer(t) == <<"Bearer", t>>
Details == {"Invalid credentials", "Account disabled"}

Axios == ver \in {"p000", "p001"}
HasTokenState == ver \in {"appjs", "p000"}

(* The session: AuthProvider's state with the two pieces of ambient state. *)
S == [user |-> user, token |-> token, loading |-> loading, ls |-> ls, hdr |-> hdr]

(* The credential a request issued now carries. *)
Cred(s) == IF ver = "appjs" THEN Bearer(s.token) ELSE s.hdr

(* The credential a request to /auth/login or /init/admin carries: fetch is  *)
(* given none, axios sends its default header.                               *)
AuthCred(s) == IF ver = "appjs" THEN NoHeader ELSE s.hdr

(* A request in flight. owner is the component whose state its continuation  *)
(* sets; live says that this component instance is still mounted, dlive that  *)
(* the Dashboard instance it was issued under is.                             *)
Req(kind, cred, owner, live, dlive, tag) ==
  [kind |-> kind, cred |-> cred, owner |-> owner, live |-> live, dlive |-> dlive, tag |-> tag]

Remove(q, i) == SubSeq(q, 1, i - 1) \o SubSeq(q, i + 1, Len(q))

Kinds(q) == [i \in 1..Len(q) |-> q[i].kind]

(* The positions in net of the requests of a kind. *)
InFlight(kind) == { i \in 1..Len(net) : net[i].kind = kind }

(* net holds the requests in flight grouped by kind, and within a kind in the *)
(* order they were issued: responses arrive in any order, so only the order   *)
(* among the requests of one kind says anything.                             *)
Rank(kind) ==
  CASE kind = "me" -> 1 [] kind = "login" -> 2 [] kind = "initAdmin" -> 3
    [] kind = "dashboard" -> 4 [] kind = "meds" -> 5 [] kind = "usage" -> 6
    [] kind = "use" -> 7 [] kind = "addMed" -> 8 [] OTHER -> 9

Put(q, r) ==
  LET k == Cardinality({ i \in 1..Len(q) : Rank(q[i].kind) <= Rank(r.kind) })
  IN SubSeq(q, 1, k) \o <<r>> \o SubSeq(q, k + 1, Len(q))

RECURSIVE PutAll(_, _)
PutAll(q, rs) == IF rs = <<>> THEN q ELSE PutAll(Put(q, Head(rs)), Tail(rs))

(* A read whose component has unmounted resolves into nothing: its setState *)
(* calls are no-ops and it issues nothing. It is not tracked further.        *)
Effective(r) == r.live \/ r.kind \notin {"dashboard", "meds", "usage"}

----------------------------------------------------------------------------
(* AuthProvider *)

(* Mutant: logout that leaves the default Authorization header in place. *)
logout_keepsHeader(s) ==
  IF ver = "appjs" THEN [s EXCEPT !.user = NoUser, !.token = NoToken, !.ls = NoToken]
  ELSE IF ver = "p000" THEN [s EXCEPT !.token = NoToken, !.user = NoUser, !.ls = NoToken]
  ELSE [s EXCEPT !.ls = NoToken, !.user = NoUser]

(* Mutant: logout that leaves the persisted token in place. *)
logout_keepsStorage(s) ==
  IF ver = "appjs" THEN [s EXCEPT !.user = NoUser, !.token = NoToken]
  ELSE IF ver = "p000" THEN [s EXCEPT !.token = NoToken, !.user = NoUser, !.hdr = NoHeader]
  ELSE [s EXCEPT !.hdr = NoHeader, !.user = NoUser]

logout(s) ==
  IF ver = "appjs" THEN [s EXCEPT !.user = NoUser, !.token = NoToken, !.ls = NoToken]
  ELSE IF ver = "p000"
    THEN [s EXCEPT !.token = NoToken, !.user = NoUser, !.ls = NoToken, !.hdr = NoHeader]
    ELSE [s EXCEPT !.ls = NoToken, !.hdr = NoHeader, !.user = NoUser]

(* Mutant: login that does not persist the token it was given. *)
loginOk_notPersisted(s, access_token, userData) ==
  IF ver = "appjs" THEN [s EXCEPT !.token = access_token, !.user = userData]
  ELSE IF ver = "p000"
    THEN [s EXCEPT !.token = access_token, !.user = userData, !.hdr = Bearer(access_token)]
    ELSE [s EXCEPT !.hdr = Bearer(access_token), !.user = userData]

loginOk(s, access_token, userData) ==
  IF ver = "appjs"
    THEN [s EXCEPT !.token = access_token, !.user = userData, !.ls = access_token]
  ELSE IF ver = "p000"
    THEN [s EXCEPT !.token = access_token, !.user = userData, !.ls = access_token,
                   !.hdr = Bearer(access_token)]
    ELSE [s EXCEPT !.ls = access_token, !.hdr = Bearer(access_token), !.user = userData]

(* Mutant: a failed login that clears the session as logout does. *)
loginFail_clears(s) == logout(s)

(* login() when the request fails: the result is returned, no state is set. *)
loginFail(s) == s

(* The /auth/me continuation on a successful response. *)
meOk(s, data) == [s EXCEPT !.user = data, !.loading = FALSE]

(* Mutant: a failed lookup that never clears the loading flag. *)
meFail_keepsLoading(s) ==
  IF ver = "appjs" THEN [s EXCEPT !.ls = NoToken, !.token = NoToken]
  ELSE IF ver = "p000" THEN logout(s)
  ELSE [s EXCEPT !.ls = NoToken, !.hdr = NoHeader]

(* Mutant: a failed lookup that leaves the persisted token in place. *)
meFail_keepsStorage(s) ==
  IF ver = "appjs" THEN [s EXCEPT !.token = NoToken, !.loading = FALSE]
  ELSE IF ver = "p000"
    THEN [s EXCEPT !.token = NoToken, !.user = NoUser, !.hdr = NoHeader, !.loading = FALSE]
    ELSE [s EXCEPT !.hdr = NoHeader, !.loading = FALSE]

(* The /auth/me continuation on a non-OK response or a network failure. *)
meFail(s) ==
  IF ver = "appjs" THEN [s EXCEPT !.ls = NoToken, !.token = NoToken, !.loading = FALSE]
  ELSE IF ver = "p000" THEN [logout(s) EXCEPT !.loading = FALSE]
  ELSE [s EXCEPT !.ls = NoToken, !.hdr = NoHeader, !.loading = FALSE]

(* Mutant: the effect clears the loading flag without waiting for the lookup. *)
authEffect_early(s, tag) ==
  LET tk == IF ver = "p001" THEN s.ls ELSE s.token IN
  IF tk # NoToken
    THEN LET s1 == IF Axios THEN [s EXCEPT !.hdr = Bearer(tk)] ELSE s
         IN [s |-> [s1 EXCEPT !.loading = FALSE],
             reqs |-> <<Req("me", Cred(s1), "auth", TRUE, FALSE, tag)>>]
    ELSE [s |-> [s EXCEPT !.loading = FALSE], reqs |-> <<>>]

(* The body of AuthProvider's useEffect: the session after it and the requests *)
(* it issues. tk is the token it tests: the token state, or in p001 the entry  *)
(* of localStorage.                                                            *)
authEffect(s, tag) ==
  LET tk == IF ver = "p001" THEN s.ls ELSE s.token IN
  IF tk # NoToken
    THEN LET s1 == IF Axios THEN [s EXCEPT !.hdr = Bearer(tk)] ELSE s
         IN [s |-> s1, reqs |-> <<Req("me", Cred(s1), "auth", TRUE, FALSE, tag)>>]
    ELSE [s |-> [s EXCEPT !.loading = FALSE], reqs |-> <<>>]

(* Mutant: the effect has no dependency list and runs after every render. *)
afterRender_noDeps(s0, s) == authEffect(s, "relogin")

(* The effect's dependency list: [token] in appjs and p000, [] in p001. *)
afterRender(s0, s) ==
  IF HasTokenState /\ s.token # s0.token THEN authEffect(s, "relogin")
  ELSE [s |-> s, reqs |-> <<>>]

(* The ways a request fails: an error response whose JSON body has a detail  *)
(* field, one whose JSON body has none, one whose body is not JSON, and no    *)
(* response at all.                                                           *)
Failures ==
  { [type |-> "detail", detail |-> d] : d \in Details }
    \cup { [type |-> "nodetail", detail |-> Undefined],
           [type |-> "nonjson", detail |-> Undefined],
           [type |-> "network", detail |-> Undefined] }

(* The result object login() returns. *)
loginResult(out) ==
  IF out.type = "ok" THEN [success |-> TRUE, error |-> Undefined]
  ELSE IF ver = "appjs"
    THEN IF out.type \in {"network", "nonjson"}
           THEN [success |-> FALSE, error |-> "Network error"]
           ELSE [success |-> FALSE, error |-> out.detail]
    ELSE [success |-> FALSE,
          error |-> IF out.type = "detail" /\ out.detail # "" THEN out.detail ELSE "Login failed"]

(* Mutant: creating the admin also opens a session for it. *)
initializeAdminDone_logsIn(s) == loginOk(s, "t1", "admin")

(* initializeAdmin() once POST /init/admin has been answered, whatever the  *)
(* answer: it calls no setter of AuthProvider and touches neither           *)
(* localStorage nor the axios defaults.                                     *)
initializeAdminDone(s) == s

(* The result object initializeAdmin() returns (appjs, p000). *)
initializeAdminResult(out) ==
  IF out.type = "ok" THEN [success |-> TRUE, error |-> Undefined]
  ELSE IF ver = "appjs"
    THEN IF out.type \in {"network", "nonjson"}
           THEN [success |-> FALSE, error |-> "Network error"]
           ELSE [success |-> FALSE, error |-> out.detail]
    ELSE [success |-> FALSE,
          error |-> IF out.type = "detail" /\ out.detail # "" THEN out.detail
                    ELSE "Failed to initialize admin"]

NoResult == [success |-> FALSE, error |-> "n/a"]

----------------------------------------------------------------------------
(* AppContent / AuthContent *)

(* Mutant: the switch does not wait for the session to be resolved. *)
View_ignoresLoading(ld, u) == IF u # NoUser THEN "dashboard" ELSE "login"

View(ld, u) == IF ld THEN "loading" ELSE IF u # NoUser THEN "dashboard" ELSE "login"

----------------------------------------------------------------------------
(* LoginForm *)

LoginFormInit == [error |-> "", isLoading |-> FALSE, showInitAdmin |-> FALSE]

includes(s, sub) == s = sub

(* handleSubmit after login() has returned result. A result without an error *)
(* string makes result.error.includes throw: the handler stops there.         *)
handleSubmitDone(f, result) ==
  IF result.success THEN [f EXCEPT !.isLoading = FALSE]
  ELSE IF ver = "p001" THEN [f EXCEPT !.error = result.error, !.isLoading = FALSE]
  ELSE IF result.error = Undefined THEN [f EXCEPT !.error = result.error]
  ELSE [f EXCEPT !.error = result.error,
                 !.showInitAdmin = f.showInitAdmin
                     \/ includes(result.error, "User not found")
                     \/ includes(result.error, "Invalid credentials"),
                 !.isLoading = FALSE]

(* handleInitAdmin after initializeAdmin() has returned result (appjs, p000). *)
handleInitAdminDone(f, result) ==
  IF result.success THEN [f EXCEPT !.error = "", !.showInitAdmin = FALSE, !.isLoading = FALSE]
  ELSE [f EXCEPT !.error = result.error, !.isLoading = FALSE]

----------------------------------------------------------------------------

(* Dashboard and its tabs *)

MedLists == { <<[id |-> 1, current_stock |-> c, minimum_threshold |-> 1]>> : c \in 0..1 }
StatsSnaps == {"stats1", "stats2"}
UsageLists == { <<>>, <<[id |-> 1, medication_id |-> 1, quantity_used |-> 1]>> }
NoStats == "null"

DashboardInit ==
  [stats |-> NoStats, medications |-> <<>>, loading |-> TRUE, error |-> "",
   activeTab |-> IF ver = "appjs" THEN "overview" ELSE "dashboard"]

(* The tabs of the navigation bar. *)
Tabs(u) ==
  IF ver = "appjs" THEN {"overview", "medications", "usage"}
  ELSE {"dashboard", "medications", "usage"}
         \cup (IF Role(u) = "admin" THEN {"admin"} ELSE {})

(* The state of the component of a tab as it mounts: the usage form with its *)
(* in-progress flag, the usage history with its loading flag, the add        *)
(* medication form with its in-progress flag and the test SMS flag.          *)
TabInit ==
  [form |-> "empty", busy |-> FALSE, usage |-> <<>>, loading |-> TRUE, testing |-> FALSE]

(* Mutant: the admin panel is rendered whenever its tab is the active one. *)
TabKey_ungated(v, d, u) == IF v # "dashboard" \/ d.loading THEN "none" ELSE d.activeTab

(* The tab component Dashboard renders: none while its own loading flag is  *)
(* set, and the admin panel only for a user whose role is admin.             *)
TabKey(v, d, u) ==
  IF v # "dashboard" \/ d.loading THEN "none"
  ELSE IF d.activeTab = "admin" /\ Role(u) # "admin" THEN "none"
  ELSE d.activeTab

(* The tab that holds the usage form. *)
UsageFormTab == IF ver = "p001" THEN "medications" ELSE "usage"

(* The medications the usage form offers in its select. *)
Selectable(meds) ==
  { i \in 1..Len(meds) : ver = "p001" => meds[i].current_stock > 0 }

(* The stock badges a medication's row shows in the medications list.        *)
(* appjs and p000 return one status from getStockStatus; p001 renders a badge *)
(* for each of its two flags that asks for one, and none for a medication     *)
(* that is in stock, which is written "ok" here.                              *)
(* Mutant: a stock equal to the threshold is not counted as low. *)
getStockStatus_strict(med) ==
  IF med.current_stock = 0 THEN {"critical"}
  ELSE IF med.current_stock < med.minimum_threshold THEN {"low"}
  ELSE {"ok"}

getStockStatus(med) ==
  IF ver # "p001"
    THEN IF med.current_stock = 0 THEN {"critical"}
         ELSE IF med.current_stock <= med.minimum_threshold THEN {"low"}
         ELSE {"ok"}
    ELSE LET isLowStock == med.current_stock <= med.minimum_threshold
             isCritical == med.current_stock = 0
             badges == (IF isCritical THEN {"critical"} ELSE {})
                         \cup (IF isLowStock /\ ~isCritical THEN {"low"} ELSE {})
         IN IF badges = {} THEN {"ok"} ELSE badges

(* The two lists Dashboard derives from the medications cache (p000, p001). *)
lowStockMeds(meds) ==
  SelectSeq(meds, LAMBDA med : med.current_stock <= med.minimum_threshold)

criticalStockMeds(meds) == SelectSeq(meds, LAMBDA med : med.current_stock = 0)

(* Dashboard's mount effect: fetchDashboardData(); fetchMedications(). *)
dashboardMount(s) ==
  << Req("dashboard", Cred(s), "dash", TRUE, TRUE, ""),
     Req("meds", Cred(s), "dash", TRUE, TRUE, "") >>

(* The mount effect of a tab's component: the usage history is fetched. *)
tabMount(key, s) ==
  IF Axios /\ key = "usage" THEN << Req("usage", Cred(s), "tab", TRUE, TRUE, "") >>
  ELSE <<>>

(* Requests of unmounted components stay in flight; their setState calls are no-ops. *)
Kill(q, owners, dashGone) ==
  [i \in 1..Len(q) |->
     [q[i] EXCEPT !.live = q[i].live /\ q[i].owner \notin owners,
                  !.dlive = q[i].dlive /\ ~dashGone]]

(* History: when the read at position i is answered, the reads of the same  *)
(* kind that were issued before it and are still in flight are marked: what *)
(* they will answer is older than what the cache now holds. Nothing in the  *)
(* code orders or cancels them.                                             *)
Overtake(q, i) ==
  [j \in 1..Len(q) |->
     IF j < i /\ q[j].kind = q[i].kind THEN [q[j] EXCEPT !.tag = "overtaken"] ELSE q[j]]

(* fetchDashboardData's continuation. *)
fetchDashboardDataDone(d, ok, data) ==
  IF ok THEN [d EXCEPT !.stats = data]
  ELSE IF ver = "p000" THEN [d EXCEPT !.error = "Failed to fetch dashboard data"]
  ELSE d

(* Mutant: a failed read empties the cache. *)
fetchMedicationsDone_clears(d, ok, data) ==
  IF ok THEN [d EXCEPT !.medications = data, !.loading = FALSE]
  ELSE [d EXCEPT !.medications = <<>>,
                 !.error = IF ver = "p000" THEN "Failed to fetch medications" ELSE d.error,
                 !.loading = FALSE]

(* fetchMedications' continuation. *)
fetchMedicationsDone(d, ok, data) ==
  IF ok THEN [d EXCEPT !.medications = data, !.loading = FALSE]
  ELSE IF ver = "p000" THEN [d EXCEPT !.error = "Failed to fetch medications", !.loading = FALSE]
  ELSE [d EXCEPT !.loading = FALSE]

(* fetchUsageHistory's (p000) and fetchUsage's (p001) continuation. *)
fetchUsageDone(tb, ok, data) ==
  LET t1 == IF ok THEN [tb EXCEPT !.usage = data] ELSE tb
  IN IF ver = "p001" THEN [t1 EXCEPT !.loading = FALSE] ELSE t1

(* Mutant: the usage write's continuation reads the stats again. *)
usageRefetch_stats(r, s) == << Req("dashboard", Cred(s), "dash", r.dlive, r.dlive, "") >>

(* The requests the usage write's continuation issues once the write has  *)
(* succeeded: r is the write, s the session when it resolves.              *)
usageRefetch(r, s) ==
  IF ver = "p000"
    THEN << Req("meds", Cred(s), "dash", r.dlive, r.dlive, ""),
            Req("usage", Cred(s), "tab", r.live, r.dlive, "") >>
  ELSE IF ver = "p001"
    THEN << Req("meds", Cred(s), "dash", r.dlive, r.dlive, "") >>
  ELSE <<>>

(* Mutant: the usage write's continuation decrements the stock in the cache *)
(* itself instead of waiting for the read.                                  *)
usageCache_optimistic(d, ok) ==
  IF ok /\ d.medications # <<>> /\ d.medications[1].current_stock > 0
    THEN [d EXCEPT !.medications[1].current_stock = d.medications[1].current_stock - 1]
    ELSE d

(* What the usage write's continuation does to Dashboard's state: it calls  *)
(* none of its setters.                                                     *)
usageCache(d, ok) == d

(* Mutant: the usage form is reset whatever the write's outcome. *)
usageDone_resets(tb, ok) == [tb EXCEPT !.form = "empty", !.busy = FALSE]

(* The usage form's state after the write has resolved. *)
usageDone(tb, ok) ==
  IF ok THEN [tb EXCEPT !.form = "empty", !.busy = FALSE] ELSE [tb EXCEPT !.busy = FALSE]

(* The alert the usage write's continuation shows. *)
usageAlert(out) ==
  IF out.type = "ok" THEN "Usage logged successfully!"
  ELSE IF ver = "appjs"
    THEN IF out.type \in {"network", "nonjson"} THEN "Network error occurred"
         ELSE <<"Error: ", out.detail>>
    ELSE IF out.type = "detail" /\ out.detail # "" THEN out.detail ELSE "Failed to log usage"

(* Mutant: the add medication write's continuation does not read again. *)
addRefetch_none(r, s) == <<>>

(* The requests the add medication write's continuation issues once the   *)
(* write has succeeded (p000, p001).                                       *)
addRefetch(r, s) == << Req("meds", Cred(s), "dash", r.dlive, r.dlive, "") >>

(* The add medication form's state after the write has resolved. *)
addDone(tb, ok) ==
  IF ok THEN [tb EXCEPT !.form = "empty", !.busy = FALSE] ELSE [tb EXCEPT !.busy = FALSE]

addAlert(out) ==
  IF out.type = "ok" THEN "Medication added successfully!"
  ELSE IF out.type = "detail" /\ out.detail # "" THEN out.detail
  ELSE "Failed to add medication"

(* The alert of the test SMS handler: sent says what the response's success *)
(* field holds.                                                             *)
smsAlert(out, sent) ==
  IF out.type = "ok"
    THEN IF ver = "p001" \/ sent THEN "Test SMS sent successfully!"
         ELSE "Failed to send test SMS"
  ELSE IF ver = "p000"
    THEN IF out.type = "detail" /\ out.detail # "" THEN out.detail
         ELSE "Failed to send test SMS"
    ELSE <<"Failed to send test SMS: ",
           IF out.type = "detail" /\ out.detail # "" THEN out.detail ELSE "Unknown error">>

(* The alert of p001's LoginForm.initializeAdmin; appjs and p000 alert from *)
(* handleInitAdmin on success only.                                         *)
initAdminAlert(out) ==
  IF out.type = "ok" THEN "Admin user created! Username: admin, Password: admin123"
  ELSE IF ver # "p001" THEN ""
  ELSE IF out.type = "detail" /\ out.detail # "" THEN out.detail
  ELSE "Failed to create admin user"

------------------------------------------------------------(* The credentials sent with the dashboard's reads and writes among the     *)
(* requests q.                                                              *)
DataKinds == {"dashboard", "meds", "usage", "use", "addMed", "testSMS"}

DataCreds(q) == { q[i].cred : i \in { j \in 1..Len(q) : q[j].kind \in DataKinds } }

----------------
(* A handler's updates followed by the render they cause: the mount or     *)
(* unmount of the login form, the dashboard and the tab's component when   *)
(* what is shown changed, and AuthProvider's effect when the token state   *)
(* changed. Effects of children run before their parents'.                 *)
Commit(s1, net1, issued1, lf1, dash1, tab1, ev) ==
  \E e \in {afterRender(S, s1)} :
  \E v2 \in {View(e.s.loading, e.s.user)} :
  \E d2 \in {IF v2 # "dashboard" \/ view # "dashboard" THEN DashboardInit ELSE dash1} :
  \E k1 \in {TabKey(view, dash, user)} :
  \E k2 \in {TabKey(v2, d2, e.s.user)} :
  \E issued \in {issued1
                   \o (IF k1 # k2 THEN tabMount(k2, e.s) ELSE <<>>)
                   \o (IF v2 = "dashboard" /\ view # "dashboard"
                         THEN dashboardMount(e.s) ELSE <<>>)
                   \o e.reqs} :
    LET dashGone == view = "dashboard" /\ v2 # "dashboard"
        gone == (IF dashGone THEN {"dash", "tab"} ELSE {})
                  \cup (IF k1 # k2 THEN {"tab"} ELSE {})
                  \cup (IF view = "login" /\ v2 # "login" THEN {"login"} ELSE {})
    IN /\ user' = e.s.user
       /\ token' = e.s.token
       /\ loading' = e.s.loading
       /\ ls' = e.s.ls
       /\ hdr' = e.s.hdr
       /\ view' = v2
       /\ lf' = IF v2 # "login" \/ view # "login" THEN LoginFormInit ELSE lf1
       /\ dash' = d2
       /\ tab' = IF k1 # k2 THEN TabInit ELSE tab1
       /\ net' = PutAll(SelectSeq(Kill(net1, gone, dashGone), Effective),
                        SelectSeq(issued, Effective))
       /\ last' = [ev EXCEPT !.issued = Kinds(issued), !.creds = DataCreds(issued)]
       /\ UNCHANGED ver

NoReq ==
  [kind |-> "none", cred |-> NoHeader, owner |-> "none", live |-> FALSE, dlive |-> FALSE,
   tag |-> ""]
(* What is recorded of the handler that ran last: its name; the tag of the  *)
(* request it continued, whether the component that issued it was still     *)
(* mounted and whether that request carried the credential of               *)
(* the session as it was when the response arrived; the response's data     *)
(* (login: the token and the user; a read: what it answered; a failure: its *)
(* type and its detail); the                                                *)
(* result object and the alert it produced; the requests it issued and the  *)
(* credentials that went with those to the dashboard's endpoints.           *)
Event(op, req, res, alert) ==
  [op |-> op, tag |-> req.tag, live |-> req.live,
   cur |-> req.kind # "none" /\ S.ls # NoToken /\ req.cred = Bearer(S.ls)
             /\ (HasTokenState => S.token = S.ls),
   data |-> <<>>, res |-> res, alert |-> alert, issued |-> <<>>, creds |-> {}]

OutData(out) == <<out.type, out.detail>>

----------------------------------------------------------------------------
Init ==
  /\ ver \in Versions
  /\ pc = "start"
  /\ user = NoUser
  /\ ls \in {NoToken} \cup Tokens
  /\ token = IF HasTokenState THEN ls ELSE NoToken
  /\ loading = TRUE
  /\ hdr = NoHeader
  /\ view = "loading"
  /\ lf = LoginFormInit
  /\ dash = DashboardInit
  /\ tab = TabInit
  /\ net = <<>>
  /\ last = Event("init", NoReq, NoResult, "")

(* AuthProvider's effect after the first render. *)
Startup ==
  /\ pc = "start"
  /\ pc' = "running"
  /\ LET e == authEffect(S, "startup")
     IN Commit(e.s, net, e.reqs, lf, dash, tab, Event("startup", NoReq, NoResult, ""))

(* The /auth/me lookup resolves. *)
MeResolve ==
  \E i \in 1..Len(net) :
    /\ net[i].kind = "me"
    /\ pc' = pc
    /\ \/ \E data \in Users :
            Commit(meOk(S, data), Remove(net, i), <<>>, lf, dash, tab,
                   Event("meOk", net[i], NoResult, ""))
       \/ Commit(meFail(S), Remove(net, i), <<>>, lf, dash, tab,
                 Event("meFail", net[i], NoResult, ""))

(* LoginForm: the form is submitted. *)
LoginSubmit ==
  /\ view = "login"
  /\ ~lf.isLoading
  /\ Len(net) < MaxInflight
  /\ pc' = pc
  /\ Commit(S, net, <<Req("login", AuthCred(S), "login", TRUE, FALSE, "")>>,
            [lf EXCEPT !.isLoading = TRUE, !.error = ""], dash, tab,
            Event("loginSubmit", NoReq, NoResult, ""))

(* POST /auth/login resolves: login() returns and handleSubmit continues. *)
LoginResolve ==
  \E i \in 1..Len(net) :
    /\ net[i].kind = "login"
    /\ pc' = pc
    /\ \/ \E t \in Tokens, u \in Users :
            LET out == [type |-> "ok", detail |-> Undefined]
            IN Commit(loginOk(S, t, u), Remove(net, i), <<>>,
                      IF net[i].live THEN handleSubmitDone(lf, loginResult(out)) ELSE lf,
                      dash, tab,
                      [Event("loginOk", net[i], loginResult(out), "") EXCEPT !.data = <<t, u>>])
       \/ \E out \in Failures :
            Commit(loginFail(S), Remove(net, i), <<>>,
                   IF net[i].live THEN handleSubmitDone(lf, loginResult(out)) ELSE lf,
                   dash, tab,
                   [Event("loginFail", net[i], loginResult(out), "")
                      EXCEPT !.data = OutData(out)])

(* Dashboard: the Logout button. *)
Logout ==
  /\ view = "dashboard"
  /\ ~dash.loading
  /\ pc' = pc
  /\ Commit(logout(S), net, <<>>, lf, dash, tab, Event("logout", NoReq, NoResult, ""))

(* Dashboard: a tab of the navigation bar is clicked. *)
SetActiveTab ==
  /\ view = "dashboard"
  /\ ~dash.loading
  /\ pc' = pc
  /\ \E t \in Tabs(user) :
       /\ t # dash.activeTab
       /\ (Axios /\ t = "usage") => Len(net) < MaxInflight
       /\ Commit(S, net, <<>>, lf, [dash EXCEPT !.activeTab = t], tab,
                 Event("setActiveTab", NoReq, NoResult, ""))

(* GET /dashboard resolves. *)
DashboardResolve ==
  \E i \in 1..Len(net) :
    /\ net[i].kind = "dashboard"
    /\ pc' = pc
    /\ \/ \E data \in StatsSnaps :
            Commit(S, Remove(net, i), <<>>, lf,
                   IF net[i].live THEN fetchDashboardDataDone(dash, TRUE, data) ELSE dash,
                   tab, [Event("dashboardOk", net[i], NoResult, "") EXCEPT !.data = data])
       \/ Commit(S, Remove(net, i), <<>>, lf,
                 IF net[i].live THEN fetchDashboardDataDone(dash, FALSE, NoStats) ELSE dash,
                 tab, Event("dashboardFail", net[i], NoResult, ""))

(* GET /medications resolves. *)
MedsResolve ==
  \E i \in 1..Len(net) :
    /\ net[i].kind = "meds"
    /\ pc' = pc
    /\ \/ \E data \in MedLists :
            Commit(S, Remove(Overtake(net, i), i), <<>>, lf,
                   IF net[i].live THEN fetchMedicationsDone(dash, TRUE, data) ELSE dash,
                   tab, [Event("medsOk", net[i], NoResult, "") EXCEPT !.data = data])
       \/ Commit(S, Remove(net, i), <<>>, lf,
                 IF net[i].live THEN fetchMedicationsDone(dash, FALSE, <<>>) ELSE dash,
                 tab, Event("medsFail", net[i], NoResult, ""))

(* GET /usage resolves. *)
UsageResolve ==
  \E i \in 1..Len(net) :
    /\ net[i].kind = "usage"
    /\ pc' = pc
    /\ \/ \E data \in UsageLists :
            Commit(S, Remove(net, i), <<>>, lf, dash,
                   IF net[i].live THEN fetchUsageDone(tab, TRUE, data) ELSE tab,
                   [Event("usageOk", net[i], NoResult, "") EXCEPT !.data = data])
       \/ Commit(S, Remove(net, i), <<>>, lf, dash,
                 IF net[i].live THEN fetchUsageDone(tab, FALSE, <<>>) ELSE tab,
                 Event("usageFail", net[i], NoResult, ""))

(* The usage form is filled in: a medication is selected, a quantity entered. *)
FillUsageForm ==
  /\ TabKey(view, dash, user) = UsageFormTab
  /\ tab.form = "empty"
  /\ Selectable(dash.medications) # {}
  /\ pc' = pc
  /\ Commit(S, net, <<>>, lf, dash, [tab EXCEPT !.form = "filled"],
            Event("fillUsageForm", NoReq, NoResult, ""))

(* Mutant: the submit control is not disabled while a write is in flight. *)
LogUsageSubmit_enabled ==
  /\ TabKey(view, dash, user) = UsageFormTab
  /\ tab.form = "filled"
  /\ Len(net) < MaxInflight
  /\ pc' = pc
  /\ Commit(S, net, <<Req("use", Cred(S), "tab", TRUE, TRUE, "")>>, lf, dash,
            [tab EXCEPT !.busy = TRUE], Event("useSubmit", NoReq, NoResult, ""))

(* handleLogUsage / handleUsageSubmit up to its await: the write is issued. *)
LogUsageSubmit ==
  /\ TabKey(view, dash, user) = UsageFormTab
  /\ tab.form = "filled"
  /\ ~tab.busy
  /\ Len(net) < MaxInflight
  /\ pc' = pc
  /\ Commit(S, net, <<Req("use", Cred(S), "tab", TRUE, TRUE, "")>>, lf, dash,
            [tab EXCEPT !.busy = TRUE], Event("useSubmit", NoReq, NoResult, ""))

(* POST /medications/{id}/use resolves: the handler continues after its await. *)
LogUsageResolve ==
  \E i \in 1..Len(net) :
    /\ net[i].kind = "use"
    /\ pc' = pc
    /\ \/ LET out == [type |-> "ok", detail |-> Undefined]
          IN Commit(S, Remove(net, i), usageRefetch(net[i], S), lf,
                    IF net[i].dlive THEN usageCache(dash, TRUE) ELSE dash,
                    IF net[i].live THEN usageDone(tab, TRUE) ELSE tab,
                    Event("useOk", net[i], NoResult, usageAlert(out)))
       \/ \E out \in Failures :
            Commit(S, Remove(net, i), <<>>, lf,
                   IF net[i].dlive THEN usageCache(dash, FALSE) ELSE dash,
                   IF net[i].live THEN usageDone(tab, FALSE) ELSE tab,
                   Event("useFail", net[i], NoResult, usageAlert(out)))

(* LoginForm: the Initialize Admin button. In appjs and p000 it shows once a *)
(* login was refused and shares the form's in-progress flag; in p001 it is   *)
(* always there and never disabled.                                          *)
InitAdminClick ==
  /\ view = "login"
  /\ ver # "p001" => lf.showInitAdmin /\ ~lf.isLoading
  /\ Len(net) < MaxInflight
  /\ pc' = pc
  /\ Commit(S, net, <<Req("initAdmin", AuthCred(S), "login", TRUE, FALSE, "")>>,
            IF ver = "p001" THEN lf ELSE [lf EXCEPT !.isLoading = TRUE], dash, tab,
            Event("initAdminClick", NoReq, NoResult, ""))

(* POST /init/admin resolves. *)
InitAdminResolve ==
  \E i \in 1..Len(net) :
    /\ net[i].kind = "initAdmin"
    /\ pc' = pc
    /\ \E out \in {[type |-> "ok", detail |-> Undefined]} \cup Failures :
         LET result == IF ver = "p001" THEN NoResult ELSE initializeAdminResult(out)
         IN Commit(initializeAdminDone(S), Remove(net, i), <<>>,
                   IF net[i].live /\ ver # "p001" THEN handleInitAdminDone(lf, result) ELSE lf,
                   dash, tab,
                   [Event(IF out.type = "ok" THEN "initAdminOk" ELSE "initAdminFail",
                          net[i], result, initAdminAlert(out))
                      EXCEPT !.data = OutData(out)])

(* p000's medications tab: the Refresh button. *)
Refresh ==
  /\ ver = "p000"
  /\ TabKey(view, dash, user) = "medications"
  /\ Len(net) < MaxInflight
  /\ pc' = pc
  /\ Commit(S, net, <<Req("meds", Cred(S), "dash", TRUE, TRUE, "")>>, lf, dash, tab,
            Event("refresh", NoReq, NoResult, ""))

(* The add medication form is filled in (p000, p001). *)
FillAddForm ==
  /\ TabKey(view, dash, user) = "admin"
  /\ tab.form = "empty"
  /\ pc' = pc
  /\ Commit(S, net, <<>>, lf, dash, [tab EXCEPT !.form = "filled"],
            Event("fillAddForm", NoReq, NoResult, ""))

(* handleAddMedication / AdminContent.handleSubmit up to its await. *)
AddMedicationSubmit ==
  /\ TabKey(view, dash, user) = "admin"
  /\ tab.form = "filled"
  /\ ~tab.busy
  /\ Len(net) < MaxInflight
  /\ pc' = pc
  /\ Commit(S, net, <<Req("addMed", Cred(S), "tab", TRUE, TRUE, "")>>, lf, dash,
            [tab EXCEPT !.busy = TRUE], Event("addSubmit", NoReq, NoResult, ""))

(* POST /medications resolves. *)
AddMedicationResolve ==
  \E i \in 1..Len(net) :
    /\ net[i].kind = "addMed"
    /\ pc' = pc
    /\ \/ LET out == [type |-> "ok", detail |-> Undefined]
          IN Commit(S, Remove(net, i), addRefetch(net[i], S), lf, dash,
                    IF net[i].live THEN addDone(tab, TRUE) ELSE tab,
                    Event("addOk", net[i], NoResult, addAlert(out)))
       \/ \E out \in Failures :
            Commit(S, Remove(net, i), <<>>, lf, dash,
                   IF net[i].live THEN addDone(tab, FALSE) ELSE tab,
                   Event("addFail", net[i], NoResult, addAlert(out)))

(* handleTestSMS / testSMS up to its await. p000 disables the button while  *)
(* a test is in flight.                                                     *)
TestSMSClick ==
  /\ TabKey(view, dash, user) = "admin"
  /\ ver = "p000" => ~tab.testing
  /\ Len(net) < MaxInflight
  /\ pc' = pc
  /\ Commit(S, net, <<Req("testSMS", Cred(S), "tab", TRUE, TRUE, "")>>, lf, dash,
            IF ver = "p000" THEN [tab EXCEPT !.testing = TRUE] ELSE tab,
            Event("smsClick", NoReq, NoResult, ""))

(* POST /alerts/test resolves. *)
TestSMSResolve ==
  \E i \in 1..Len(net) :
    /\ net[i].kind = "testSMS"
    /\ pc' = pc
    /\ \E out \in {[type |-> "ok", detail |-> Undefined]} \cup Failures, sent \in BOOLEAN :
         /\ out.type # "ok" => sent
         /\ Commit(S, Remove(net, i), <<>>, lf, dash,
                   IF net[i].live /\ ver = "p000" THEN [tab EXCEPT !.testing = FALSE] ELSE tab,
                   Event(IF out.type = "ok" THEN "smsOk" ELSE "smsFail", net[i], NoResult,
                         smsAlert(out, sent)))

(* The whole application. *)
Next ==
  \/ Startup
  \/ MeResolve
  \/ LoginSubmit
  \/ LoginResolve
  \/ InitAdminClick
  \/ InitAdminResolve
  \/ Logout
  \/ SetActiveTab
  \/ DashboardResolve
  \/ MedsResolve
  \/ UsageResolve
  \/ FillUsageForm
  \/ LogUsageSubmit
  \/ LogUsageResolve
  \/ Refresh
  \/ FillAddForm
  \/ AddMedicationSubmit
  \/ AddMedicationResolve
  \/ TestSMSClick
  \/ TestSMSResolve

Spec == Init /\ [][Next]_vars

(* The session lifecycle: AuthProvider, the login form and AppContent's    *)
(* switch, with the part of Dashboard that the Logout button waits for.    *)
(* The tabs' handlers leave user, token, loading, localStorage, the header, *)
(* the view and the login form alone, so every behaviour of the whole      *)
(* application is, on those, a behaviour of this specification.            *)
NextSession ==
  \/ Startup
  \/ MeResolve
  \/ LoginSubmit
  \/ LoginResolve
  \/ InitAdminClick
  \/ InitAdminResolve
  \/ Logout
  \/ DashboardResolve
  \/ MedsResolve

SpecSession == Init /\ [][NextSession]_vars

(* The session lifecycle when every request that is issued is answered in  *)
(* the end (with a success, a rejection or a network failure) and the mount *)
(* effect runs: the browser does both without the user.                     *)
NextSessionFair ==
  \/ Startup
  \/ MeResolve
  \/ LoginSubmit
  \/ LoginResolve
  \/ InitAdminClick
  \/ InitAdminResolve
  \/ Logout
  \/ DashboardResolve
  \/ MedsResolve

SpecSessionFair ==
  /\ Init
  /\ [][NextSessionFair]_vars
  /\ WF_vars(Startup)
  /\ WF_vars(MeResolve)
  /\ WF_vars(LoginResolve)
  /\ WF_vars(InitAdminResolve)
  /\ WF_vars(DashboardResolve)
  /\ WF_vars(MedsResolve)

(* One visit of the dashboard: a session restored at startup, the dashboard *)
(* with its tabs, their reads and writes, and the logout that ends it.      *)
NextDash ==
  \/ Startup
  \/ MeResolve
  \/ Logout
  \/ SetActiveTab
  \/ DashboardResolve
  \/ MedsResolve
  \/ UsageResolve
  \/ FillUsageForm
  \/ LogUsageSubmit
  \/ LogUsageResolve
  \/ Refresh
  \/ FillAddForm
  \/ AddMedicationSubmit
  \/ AddMedicationResolve
  \/ TestSMSClick
  \/ TestSMSResolve

SpecDash == Init /\ [][NextDash]_vars

(* The stock figures of a dashboard as they are rendered: a session is open, *)
(* the medications cache holds whatever list the backend answered with, and  *)
(* the active tab is rendered.                                               *)
StockLists ==
  UNION { { [i \in 1..n |-> [id |-> i, current_stock |-> f[i][1], minimum_threshold |-> f[i][2]]]
              : f \in [1..n -> (0..MaxStock) \X (0..MaxStock)] }
            : n \in 1..MaxMeds }

InitStock ==
  /\ ver \in Versions
  /\ pc = "running"
  /\ user \in Users
  /\ ls = "t1"
  /\ token = IF HasTokenState THEN ls ELSE NoToken
  /\ loading = FALSE
  /\ hdr = IF Axios THEN Bearer(ls) ELSE NoHeader
  /\ view = "dashboard"
  /\ lf = LoginFormInit
  /\ \E meds \in StockLists :
       dash = [DashboardInit EXCEPT !.medications = meds, !.loading = FALSE,
                                    !.stats = "stats1"]
  /\ tab = TabInit
  /\ net = <<>>
  /\ last = Event("init", NoReq, NoResult, "")

(* The medications tab renders a row with its badges for every medication. *)
RenderMedications ==
  /\ last.op = "init"
  /\ last' = [Event("renderMedications", NoReq, NoResult, "")
                EXCEPT !.data = [i \in 1..Len(dash.medications) |->
                                   getStockStatus(dash.medications[i])]]
  /\ UNCHANGED <<ver, pc, user, token, loading, ls, hdr, view, lf, dash, tab, net>>

(* Dashboard computes the two lists with every render and hands them to its *)
(* first tab, which shows the low list in its alert panel (p000, p001).      *)
RenderAlerts ==
  /\ last.op = "init"
  /\ Axios
  /\ last' = [Event("renderAlerts", NoReq, NoResult, "")
                EXCEPT !.data = <<lowStockMeds(dash.medications),
                                  criticalStockMeds(dash.medications)>>]
  /\ UNCHANGED <<ver, pc, user, token, loading, ls, hdr, view, lf, dash, tab, net>>

NextStock ==
  \/ RenderMedications
  \/ RenderAlerts

SpecStock == InitStock /\ [][NextStock]_vars


(* The three versions run on one script: a start state (a token persisted   *)
(* or not) and a sequence of user actions and backend answers. The script   *)
(* is run on App.js, then on part_000, then on part_001, each from its      *)
(* initial state; what is rendered and what is persisted after every step   *)
(* is logged per version. An event that the version at hand has no use for  *)
(* (a click on a button that is not rendered, an answer to a request that   *)
(* was not issued) is skipped. last.data holds the script and the log.      *)
EquivEvents == {"loginOk", "loginFail", "meOk", "meFail", "reads", "logout"}

Scripts == [1..MaxScript -> EquivEvents]

Run == last.data

(* What an observer sees once the session s1 is committed. *)
Observed(s1) ==
  LET e == afterRender(S, s1) IN <<View(e.s.loading, e.s.user), e.s.ls>>

Log(run, s1) ==
  [run EXCEPT !.pos = @ + 1, !.obs[ver] = Append(@, Observed(s1))]

Replayed(s1) == [Event("replay", NoReq, NoResult, "") EXCEPT !.data = Log(Run, s1)]

CurEvent ==
  IF pc = "running" /\ Run.pos \in 1..Len(Run.script) THEN Run.script[Run.pos] ELSE "none"

Skip == Commit(S, net, <<>>, lf, dash, tab, Replayed(S))

InitEquiv ==
  /\ ver = "appjs"
  /\ pc = "start"
  /\ user = NoUser
  /\ ls \in {NoToken, "t1"}
  /\ token = ls
  /\ loading = TRUE
  /\ hdr = NoHeader
  /\ view = "loading"
  /\ lf = LoginFormInit
  /\ dash = DashboardInit
  /\ tab = TabInit
  /\ net = <<>>
  /\ \E sc \in Scripts :
       last = [Event("init", NoReq, NoResult, "")
                 EXCEPT !.data = [script |-> sc, start |-> ls, pos |-> 0,
                                  obs |-> [v \in Versions |-> <<>>]]]

(* The application starts: AuthProvider's mount effect. *)
ReplayStart ==
  /\ pc = "start"
  /\ pc' = "running"
  /\ LET e == authEffect(S, "startup")
     IN Commit(e.s, net, e.reqs, lf, dash, tab, Replayed(e.s))

(* The login form is submitted and POST /auth/login is answered. *)
ReplayLogin ==
  /\ CurEvent \in {"loginOk", "loginFail"}
  /\ pc' = pc
  /\ IF view = "login" /\ ~lf.isLoading
       THEN LET f == [lf EXCEPT !.isLoading = TRUE, !.error = ""]
                ok == [type |-> "ok", detail |-> Undefined]
                no == [type |-> "detail", detail |-> "Invalid credentials"]
            IN IF CurEvent = "loginOk"
                 THEN Commit(loginOk(S, "t1", "admin"), net, <<>>,
                             handleSubmitDone(f, loginResult(ok)), dash, tab,
                             Replayed(loginOk(S, "t1", "admin")))
                 ELSE Commit(loginFail(S), net, <<>>,
                             handleSubmitDone(f, loginResult(no)), dash, tab,
                             Replayed(loginFail(S)))
       ELSE Skip

(* The oldest /auth/me lookup in flight is answered. *)
ReplayMe ==
  /\ CurEvent \in {"meOk", "meFail"}
  /\ pc' = pc
  /\ IF InFlight("me") # {}
       THEN LET i == CHOOSE j \in InFlight("me") : \A k \in InFlight("me") : j <= k
            IN IF CurEvent = "meOk"
                 THEN Commit(meOk(S, "admin"), Remove(net, i), <<>>, lf, dash, tab,
                             Replayed(meOk(S, "admin")))
                 ELSE Commit(meFail(S), Remove(net, i), <<>>, lf, dash, tab,
                             Replayed(meFail(S)))
       ELSE Skip

(* The reads of the dashboard's mount effect are answered. *)
ReplayReads ==
  /\ CurEvent = "reads"
  /\ pc' = pc
  /\ IF InFlight("dashboard") \cup InFlight("meds") # {}
       THEN Commit(S, SelectSeq(net, LAMBDA r : r.kind \notin {"dashboard", "meds"}), <<>>, lf,
                   fetchMedicationsDone(fetchDashboardDataDone(dash, TRUE, "stats1"), TRUE,
                                        <<[id |-> 1, current_stock |-> 1,
                                           minimum_threshold |-> 1]>>),
                   tab, Replayed(S))
       ELSE Skip

(* The Logout button is clicked. *)
ReplayLogout ==
  /\ CurEvent = "logout"
  /\ pc' = pc
  /\ IF view = "dashboard" /\ ~dash.loading
       THEN Commit(logout(S), net, <<>>, lf, dash, tab, Replayed(logout(S)))
       ELSE Skip

(* The script is at its end: the next version starts on it. *)
ReplayNextVersion ==
  /\ pc = "running"
  /\ Run.pos > Len(Run.script)
  /\ ver # "p001"
  /\ ver' = IF ver = "appjs" THEN "p000" ELSE "p001"
  /\ pc' = "start"
  /\ user' = NoUser
  /\ ls' = Run.start
  /\ token' = IF ver' = "p000" THEN Run.start ELSE NoToken
  /\ loading' = TRUE
  /\ hdr' = NoHeader
  /\ view' = "loading"
  /\ lf' = LoginFormInit
  /\ dash' = [DashboardInit EXCEPT !.activeTab = "dashboard"]
  /\ tab' = TabInit
  /\ net' = <<>>
  /\ last' = [Event("nextVersion", NoReq, NoResult, "")
                EXCEPT !.data = [Run EXCEPT !.pos = 0]]

NextEquiv ==
  \/ ReplayStart
  \/ ReplayLogin
  \/ ReplayMe
  \/ ReplayReads
  \/ ReplayLogout
  \/ ReplayNextVersion

SpecEquiv == InitEquiv /\ [][NextEquiv]_vars

----------------------------------------------------------------------------
(* Properties *)

Count(q, x) == Cardinality({ i \in 1..Len(q) : q[i] = x })

(* C1: immediately after logout() has run (the Logout button in every      *)
(* version, and the failed lookup of p000, which calls it), the user is     *)
(* null, the token state is null, localStorage holds no token and the axios *)
(* default Authorization header is removed.                                 *)
C1_LogoutClears ==
  (last.op = "logout" \/ (ver = "p000" /\ last.op = "meFail"))
    => /\ user = NoUser
       /\ token = NoToken
       /\ ls = NoToken
       /\ hdr = NoHeader

C1_Witness == last.op = "logout" /\ Len(net) > 0

(* C2: in every reachable state the user is non-null only if a token is held *)
(* by the session (the token state, where there is one) and persisted in     *)
(* localStorage.                                                             *)
C2_UserOnlyWithToken ==
  user # NoUser => ls # NoToken /\ (HasTokenState => token # NoToken)

(* C3: when login() receives a successful response it returns               *)
(* {success: true}, and afterwards the user is the returned user,            *)
(* localStorage holds the returned token, and the token state and the axios  *)
(* header, where the version has them, carry that token.                     *)
C3_LoginOk ==
  last.op = "loginOk"
    => /\ last.res = [success |-> TRUE, error |-> Undefined]
       /\ last.data[1] \in Tokens
       /\ user = last.data[2]
       /\ ls = last.data[1]
       /\ HasTokenState => token = last.data[1]
       /\ Axios => hdr = Bearer(last.data[1])

C3_Witness == last.op = "loginOk" /\ view = "dashboard" /\ user \in Users

(* C4: a login that fails leaves user, token state, localStorage and the    *)
(* default Authorization header as they were before the response arrived.   *)
C4_LoginFailFrame ==
  [][last'.op = "loginFail" => (user' = user /\ token' = token /\ ls' = ls /\ hdr' = hdr)]_vars

C4_Witness == last.op = "loginFail" /\ ~last.res.success /\ view = "login"

(* C5: for every outcome of login and of initializeAdmin the result is      *)
(* {success: true} or {success: false, error: m} with m a non-empty message: *)
(* the backend's detail when the response has one, otherwise a generic       *)
(* fallback string.                                                          *)
Fallbacks == {"Network error", "Login failed", "Failed to initialize admin"}

C5_ResultTranslation ==
  (last.op \in {"loginOk", "loginFail"}
     \/ (last.op \in {"initAdminOk", "initAdminFail"} /\ ver # "p001"))
    => \/ last.res = [success |-> TRUE, error |-> Undefined]
       \/ /\ last.res.success = FALSE
          /\ last.res.error \notin {Undefined, ""}
          /\ last.data[1] = "detail" => last.res.error = last.data[2]
          /\ last.data[1] # "detail" => last.res.error \in Fallbacks

(* C6: when the application starts with a persisted token and the lookup is *)
(* rejected or fails, then once it has completed the user is null, the       *)
(* persisted token is removed, no credential is attached any more, the login *)
(* form is what is rendered, and the form shows no error.                    *)
C6_StartupRejected ==
  (last.op = "meFail" /\ last.tag = "startup")
    => /\ user = NoUser
       /\ ls = NoToken
       /\ token = NoToken
       /\ hdr = NoHeader
       /\ ~loading
       /\ view = "login"
       /\ lf.error = ""

C6_Witness == last.op = "meFail" /\ last.tag = "startup" /\ view = "login"

(* C7: in the versions that verify the token again after a login (App.js,   *)
(* part_000), whenever the lookup for the session's current token fails, the *)
(* session is destroyed as by logout: the user and the token are null, the   *)
(* persisted token is removed and the login form is rendered.                *)
C7_LookupFailureDestroys ==
  (HasTokenState /\ last.op = "meFail" /\ last.cur)
    => /\ user = NoUser
       /\ token = NoToken
       /\ ls = NoToken
       /\ view = "login"

(* C8: the loading flag starts true; it becomes false at once when no token *)
(* is persisted at startup and otherwise not before the startup lookup has   *)
(* completed; once false it never becomes true again.                        *)
C8_LoadingFlag ==
  /\ loading = TRUE
  /\ [][(pc = "start" /\ ls = NoToken) => ~loading']_vars
  /\ [](~loading => pc = "running" /\ \A i \in 1..Len(net) : net[i].tag # "startup")
  /\ [][~loading => ~loading']_vars

C8_Witness == ~loading /\ last.op = "meOk" /\ last.tag = "startup"

(* C9: while loading is true neither the login form nor the dashboard is    *)
(* rendered, and nothing but the startup lookup has been issued; once it is  *)
(* false the dashboard is rendered iff the user is non-null and the login    *)
(* form iff the user is null.                                                *)
C9_ViewSwitch ==
  /\ loading => /\ view = "loading"
                /\ last.op \in {"init", "startup"}
                /\ \A i \in 1..Len(net) : net[i].kind = "me" /\ net[i].tag = "startup"
  /\ ~loading => /\ view = "dashboard" <=> user # NoUser
                 /\ view = "login" <=> user = NoUser

C9_Witness == loading /\ pc = "running" /\ Len(net) = 1

(* C10: a successful usage write is followed by exactly one GET /medications *)
(* and exactly one GET /usage, issued by the write's continuation; none is    *)
(* issued when the form is submitted, before the write has resolved.          *)
C10_RefetchAfterUsage ==
  /\ last.op = "useOk" => Count(last.issued, "meds") = 1 /\ Count(last.issued, "usage") = 1
  /\ last.op = "useSubmit" => last.issued = <<"use">>

(* C11: the status the medications list shows for a medication is critical  *)
(* iff its current_stock is 0, low iff its current_stock is above 0 and at   *)
(* most its minimum_threshold, and ok otherwise; every medication has        *)
(* exactly one of the three.                                                 *)
C11_StockStatus ==
  last.op = "renderMedications"
    => \A i \in 1..Len(dash.medications) :
         LET med == dash.medications[i]
             shown == last.data[i]
         IN /\ "critical" \in shown <=> med.current_stock = 0
            /\ "low" \in shown <=> (0 < med.current_stock
                                      /\ med.current_stock <= med.minimum_threshold)
            /\ "ok" \in shown <=> med.current_stock > med.minimum_threshold
            /\ Cardinality(shown) = 1

C11_Witness ==
  /\ last.op = "renderMedications"
  /\ Len(dash.medications) = 2
  /\ last.data[1] = {"critical"}
  /\ last.data[2] = {"low"}
  /\ dash.medications[2].current_stock = dash.medications[2].minimum_threshold

(* C12: every medication in the dashboard's lowStockMeds list has the low   *)
(* status, a current_stock above 0 and at most its minimum_threshold; none   *)
(* with current_stock 0 is in it, so the low and the critical list have no   *)
(* medication in common.                                                     *)
C12_LowListIsLow ==
  last.op = "renderAlerts"
    => /\ \A i \in 1..Len(last.data[1]) :
            /\ 0 < last.data[1][i].current_stock
            /\ last.data[1][i].current_stock <= last.data[1][i].minimum_threshold
       /\ \A i \in 1..Len(last.data[1]), j \in 1..Len(last.data[2]) :
            last.data[1][i] # last.data[2][j]

(* C13: every failed login is caught: handleSubmit runs to its end, the     *)
(* form shows an error message and its in-progress flag is false again.     *)
C13_FailedLoginShown ==
  (last.op = "loginFail" /\ last.live)
    => /\ view = "login"
       /\ lf.error \notin {"", Undefined}
       /\ ~lf.isLoading

(* C14: every failing dashboard fetcher (GET /dashboard, GET /medications,  *)
(* GET /usage) leads to the dashboard's inline error banner being shown.    *)
C14_FetchFailureBanner ==
  (last.op \in {"dashboardFail", "medsFail", "usageFail"} /\ last.live)
    => /\ view = "dashboard"
       /\ dash.error # ""

(* C15: when a fetcher's read succeeds its cache (stats, medications, usage *)
(* history) becomes the whole response; when it fails the cache is exactly  *)
(* what it was before; a cache is never partly updated or merged.           *)
C15_CacheReplacedOrKept ==
  [][/\ (last'.op = "dashboardOk" /\ last'.live) => dash'.stats = last'.data
     /\ (last'.op = "medsOk" /\ last'.live) => dash'.medications = last'.data
     /\ (last'.op = "usageOk" /\ last'.live) => tab'.usage = last'.data
     /\ last'.op = "dashboardFail" => dash'.stats = dash.stats
     /\ last'.op = "medsFail" => dash'.medications = dash.medications
     /\ last'.op = "usageFail" => tab'.usage = tab.usage]_vars

C15_Witness ==
  /\ last.op = "medsFail"
  /\ last.live
  /\ dash.medications # <<>>

(* C16: the fetchers for stats, medications and usage history that are in   *)
(* flight together write disjoint parts of the state: whatever their        *)
(* responses are, applying them in one order or the other leads to the same *)
(* state.                                                                   *)
C16_OrderIndependent ==
  /\ \A i \in InFlight("dashboard"), j \in InFlight("meds") :
       (net[i].live /\ net[j].live)
         => \A okd \in BOOLEAN, okm \in BOOLEAN, sd \in StatsSnaps, ml \in MedLists :
              fetchMedicationsDone(fetchDashboardDataDone(dash, okd, sd), okm, ml)
                = fetchDashboardDataDone(fetchMedicationsDone(dash, okm, ml), okd, sd)
  /\ \A i \in InFlight("usage"), j \in InFlight("dashboard") \cup InFlight("meds") :
       (net[i].live /\ net[j].live)
         => \A ok \in BOOLEAN, sd \in StatsSnaps, ml \in MedLists :
              /\ TabKey(view, fetchMedicationsDone(dash, ok, ml), user) = TabKey(view, dash, user)
              /\ TabKey(view, fetchDashboardDataDone(dash, ok, sd), user) = TabKey(view, dash, user)

(* C17: when several GET /medications are in flight and all of them have    *)
(* completed, the cache holds the response of the read issued last: it was  *)
(* not written last by a read that a later-issued read had already answered *)
(* before.                                                                  *)
C17_NewestReadWins ==
  (last.op = "medsOk" /\ last.live /\ InFlight("meds") = {})
    => last.tag # "overtaken"

(* C18: no failure makes the client issue a request by itself: the handler  *)
(* of a failed request, with the render and the effects it causes (a failed *)
(* /auth/me changes the token state and re-runs the token effect), issues   *)
(* nothing; the next request comes from a user action.                      *)
FailOps ==
  {"meFail", "loginFail", "initAdminFail", "dashboardFail", "medsFail", "usageFail",
   "useFail", "addFail", "smsFail"}

C18_NoRetry == last.op \in FailOps => last.issued = <<>>

C18_Witness ==
  /\ last.op = "meFail"
  /\ last.tag = "relogin"
  /\ HasTokenState
  /\ token = NoToken
  /\ net = <<>>

(* C19: whenever a dashboard read or write (GET /dashboard, /medications,   *)
(* /usage, POST /medications, /medications/{id}/use, /alerts/test) is       *)
(* issued, a token is persisted and the request carries that token as its   *)
(* bearer credential: none goes out without a credential or with that of a  *)
(* session that was logged out.                                             *)
C19_RequestsCarryToken ==
  \A c \in last.creds : ls # NoToken /\ c = Bearer(ls)

(* C20: the medications cache of a mounted dashboard changes only when a    *)
(* GET /medications response is applied: submitting a usage or an add       *)
(* medication write and the arrival of its response leave the cache as it   *)
(* is, so the stock shown stays the same until the following read answers.  *)
MutationOps == {"useSubmit", "useOk", "useFail", "addSubmit", "addOk", "addFail"}

C20_CacheOnlyFromRead ==
  [][/\ last'.op \in MutationOps => dash'.medications = dash.medications
     /\ (dash'.medications # dash.medications /\ view = "dashboard" /\ view' = "dashboard")
          => last'.op = "medsOk"]_vars

C20_Witness ==
  /\ last.op = "useOk"
  /\ last.live
  /\ dash.medications # <<>>
  /\ InFlight("meds") # {}

(* C21: once the session is unauthenticated (after logout: the user is null *)
(* and the login form is rendered) it stays so until a login succeeds: no   *)
(* response to an older request, a late /auth/me success in particular,     *)
(* populates the user or brings the dashboard back.                         *)
C21_LoggedOutUntilLogin ==
  [][(pc = "running" /\ ~loading /\ user = NoUser /\ view = "login")
       => \/ (user' = NoUser /\ view' = "login")
          \/ last'.op = "loginOk"]_vars

(* C22: when every issued request is answered in the end, the application   *)
(* leaves the resolving state from every start state: loading becomes false *)
(* and the login form or the dashboard is rendered.                         *)
C22_LeavesResolving == <>(~loading /\ view \in {"login", "dashboard"})

C22_Witness == last.op = "startup" /\ ~loading /\ view = "login" /\ net = <<>>

(* C23: in p000 and p001 an add medication write that succeeded is followed *)
(* by exactly one GET /medications, issued by its continuation; one that    *)
(* failed by none; and none is issued when the form is submitted, before    *)
(* the write has resolved.                                                  *)
C23_RefetchAfterAdd ==
  /\ last.op = "addOk" => Count(last.issued, "meds") = 1
  /\ last.op = "addFail" => last.issued = <<>>
  /\ last.op = "addSubmit" => last.issued = <<"addMed">>

C23_Witness ==
  /\ last.op = "addOk"
  /\ last.live
  /\ Axios
  /\ Count(last.issued, "meds") = 1
  /\ InFlight("meds") # {}

(* C24: a usage or add medication write that fails changes nothing but the  *)
(* form's in-progress flag: the session, the dashboard's caches and error,  *)
(* the usage history and the form's inputs are as before, nothing is        *)
(* issued, an alert is shown and the in-progress flag is false again. Only  *)
(* a write that succeeded empties the form.                                 *)
C24_FailedWriteFrame ==
  [][/\ last'.op \in {"useFail", "addFail"}
          => /\ <<user', token', ls', hdr', loading', view', lf'>>
                  = <<user, token, ls, hdr, loading, view, lf>>
             /\ dash' = dash
             /\ tab'.form = tab.form
             /\ tab'.usage = tab.usage
             /\ last'.live => ~tab'.busy
             /\ last'.issued = <<>>
             /\ last'.alert # ""
     /\ (last'.op \in {"useOk", "addOk"} /\ last'.live) => tab'.form = "empty"
     /\ (tab.form = "filled" /\ tab'.form = "empty" /\ dash'.activeTab = dash.activeTab
           /\ view' = "dashboard")
          => last'.op \in {"useOk", "addOk"}]_vars

C24_Witness ==
  /\ last.op = "useFail"
  /\ last.live
  /\ tab.form = "filled"
  /\ ~tab.busy
  /\ dash.medications # <<>>

(* C25: in p000 and p001 the admin panel is rendered only while the user's  *)
(* role is admin, so the add medication form is filled in and submitted and *)
(* a test SMS is requested only by an admin; this holds also after a later  *)
(* login or lookup response has replaced the user.                          *)
C25_AdminGate ==
  Axios
    => /\ TabKey(view, dash, user) = "admin" => Role(user) = "admin"
       /\ last.op \in {"fillAddForm", "addSubmit", "smsClick"} => Role(user) = "admin"
       /\ (tab.form = "filled" /\ dash.activeTab = "admin") => Role(user) = "admin"

C25_Witness ==
  /\ Axios
  /\ last.op = "meOk"
  /\ view = "dashboard"
  /\ ~dash.loading
  /\ dash.activeTab = "admin"
  /\ Role(user) # "admin"
  /\ tab = TabInit

(* C26: run on the same script (start state, logins, logouts and the        *)
(* backend's answers to /auth/login and /auth/me), the three versions       *)
(* render the same view and hold the same persisted token after every step. *)
C26_VersionsEquivalent ==
  \A v1 \in Versions, v2 \in Versions :
    \A k \in 1..Len(Run.obs[v1]) :
      k <= Len(Run.obs[v2]) => Run.obs[v1][k] = Run.obs[v2][k]

(* C27: at most one usage write of the usage form that is mounted is in     *)
(* flight at any time: the form's in-progress flag is true exactly from the *)
(* submit until the write has resolved, and no submit happens while it is.  *)
LiveUse == { i \in InFlight("use") : net[i].live }

C27_OneUsageWrite ==
  /\ Cardinality(LiveUse) <= 1
  /\ TabKey(view, dash, user) = UsageFormTab => (tab.busy <=> LiveUse # {})
  /\ TabKey(view, dash, user) # UsageFormTab => LiveUse = {}

C27_Witness ==
  /\ Cardinality(InFlight("use")) = 2
  /\ Cardinality(LiveUse) = 1
  /\ tab.busy
  /\ last.op = "useSubmit"

(* C28: GET /dashboard is issued exactly once with every mount of Dashboard *)
(* and by nothing else (no usage or add medication write, no Refresh, no    *)
(* tab switch), so the stats shown are those read at mount until Dashboard  *)
(* is unmounted.                                                            *)
C28_StatsOncePerMount ==
  /\ [][/\ (view # "dashboard" /\ view' = "dashboard")
             => Count(last'.issued, "dashboard") = 1
        /\ ~(view # "dashboard" /\ view' = "dashboard")
             => Count(last'.issued, "dashboard") = 0
        /\ (dash'.stats # dash.stats /\ view = "dashboard" /\ view' = "dashboard")
             => (last'.op = "dashboardOk" /\ dash.stats = NoStats)]_vars
  /\ [](Cardinality(InFlight("dashboard")) <= 1)
  /\ [](dash.stats # NoStats => InFlight("dashboard") = {})

C28_Witness ==
  /\ last.op = "useOk"
  /\ last.live
  /\ dash.stats \in StatsSnaps
  /\ InFlight("dashboard") = {}
  /\ Count(last.issued, "meds") = 1

(* C29: initializeAdmin, whether POST /init/admin succeeds or fails, leaves *)
(* the session as it was: user, token state, localStorage and the default   *)
(* Authorization header are unchanged and the login form stays rendered;    *)
(* nobody is logged in by it.                                               *)
C29_InitAdminFrame ==
  [][last'.op \in {"initAdminOk", "initAdminFail"}
       => /\ <<user', token', ls', hdr', loading'>> = <<user, token, ls, hdr, loading>>
          /\ view' = view
          /\ last'.live => (view' = "login" /\ user' = NoUser)
          /\ last'.issued = <<>>]_vars

C29_Witness ==
  /\ last.op = "initAdminOk"
  /\ last.live
  /\ view = "login"
  /\ user = NoUser
  /\ ls = NoToken

(* C30: in p000 and p001, once the startup resolution has completed, the    *)
(* default Authorization header is set iff a token is in localStorage, and  *)
(* then it is 'Bearer ' followed by that token, whatever logins, logouts    *)
(* and lookup answers have happened.                                        *)
C30_HeaderIffPersisted ==
  (Axios /\ ~loading)
    => /\ hdr # NoHeader <=> ls # NoToken
       /\ hdr # NoHeader => hdr = Bearer(ls)

C30_Witness ==
  /\ Axios
  /\ ~loading
  /\ last.op = "meOk"
  /\ last.tag = "relogin"
  /\ hdr = Bearer("t2")
  /\ ls = "t2"

====
